---- MODULE Spec2Model ----
(***************************************************************************)
(* A model of seroost's indexing and ranking engine: the Lexer, the        *)
(* in-memory model (InMemoryModel), the sqlite model (SqliteModel) and the *)
(* tf-idf scoring of src/src/model.rs, the HTTP server of                  *)
(* src/src/server.rs, and the directory traversal of src/src/main.rs.      *)
(*                                                                         *)
(* A character is a one-character string; the characters outside ASCII     *)
(* that the code's Unicode predicates tell apart are written by their code *)
(* point ("U+2167").  A term and a content are sequences of characters.    *)
(***************************************************************************)
EXTENDS Integers, Sequences, FiniteSets, TLC

VARIABLES
    \* Lexer (model.rs:223-276)
    input,      \* the slice the Lexer was created over (Lexer::new)
    content,    \* Lexer.content: the part of the input not yet consumed
    terms,      \* the terms the iterator has yielded so far
    spans,      \* the source slices those terms were chopped from
    done,       \* the iterator has returned None
    \* InMemoryModel (model.rs:163-209)
    docs,       \* InMemoryModel.docs: path -> Doc {tf, count}
    df,         \* InMemoryModel.df: term -> document frequency
    indexed,    \* path -> the content last given to add_document for it
    call,       \* the last call on the model: its arguments and what it returned
    ncalls,     \* the number of add_document calls made
    \* SqliteModel (model.rs:11-152): the database as the connection sees it
    Documents,  \* table Documents: rows {id, path, term_count}, path unique
    TermFreq,   \* table TermFreq: rows {term, doc_id, freq}
    DocFreq,    \* table DocFreq: term -> freq, term unique
    inTx,       \* BEGIN has been executed and COMMIT has not
    durable,    \* the three tables as last committed
    sqlcall,    \* the last call on the SqliteModel and what it returned
    \* server::start (server.rs:93-108)
    srv,        \* "off", "serving", "bind_failed", or "panicked"
    backend,    \* the Model the server was started with: "memory" or "sqlite"
    handled,    \* the requests taken from server.incoming_requests()
    responded,  \* the calls of request.respond made
    response,   \* the last response: its status code, whether it was written, ...
    \* tf_index_of_folder (main.rs:106-153)
    fs,         \* the directory the traversal is started on
    stack,      \* the calls of tf_index_of_folder in progress: directory, position
    tf_index,   \* TermFreqIndex: path -> TermFreq
    walk        \* the traversal: "running", "Ok", or the step that returned Err

lexvars == <<input, content, terms, spans, done>>

memvars == <<docs, df, indexed, call, ncalls>>

sqlvars == <<Documents, TermFreq, DocFreq, inTx, durable, sqlcall>>

srvvars == <<srv, backend, handled, responded, response>>

idxvars == <<fs, stack, tf_index, walk>>

vars == <<input, content, terms, spans, done, docs, df, indexed, call, ncalls,
          Documents, TermFreq, DocFreq, inTx, durable, sqlcall,
          srv, backend, handled, responded, response, fs, stack, tf_index, walk>>

---------------------------------------------------------------------------
(* Characters.                                                             *)

\* char::is_whitespace: space, tab, line feed, and U+00A0 NO-BREAK SPACE.
Whitespace == {" ", "\t", "\n", "U+00A0"}

\* ASCII digits.
Digits == {"0", "1", "2", "3", "4", "5", "6", "7", "8", "9"}

\* char::is_numeric (Nd, Nl, No): the digits, U+00BD VULGAR FRACTION ONE
\* HALF (No) and U+2167 ROMAN NUMERAL EIGHT (Nl).
Numeric == Digits \cup {"U+00BD", "U+2167"}

Lower == {"a", "b", "e", "h", "t", "x"}

Upper == {"A", "B", "E", "H", "T", "X"}

\* char::is_alphabetic (the Alphabetic property): the letters, U+00E9 LATIN
\* SMALL LETTER E WITH ACUTE, and U+2167, which is Nl and Alphabetic.
Alphabetic == Lower \cup Upper \cup {"U+00E9", "U+2167"}

\* char::is_alphanumeric: is_alphabetic() || is_numeric().
Alphanumeric == Alphabetic \cup Numeric

\* char::to_ascii_uppercase: only a-z change.
to_ascii_uppercase(c) ==
    CASE c = "a" -> "A"
      [] c = "b" -> "B"
      [] c = "e" -> "E"
      [] c = "h" -> "H"
      [] c = "t" -> "T"
      [] c = "x" -> "X"
      [] OTHER -> c

\* iter().map(f).collect() over a slice.
MapUpper(s) == [i \in 1..Len(s) |-> to_ascii_uppercase(s[i])]

---------------------------------------------------------------------------
(* Lexer.                                                                  *)

RECURSIVE trim_left(_)
\* Lexer::trim_left: drop the leading whitespace.
trim_left(c) ==
    IF c # <<>> /\ c[1] \in Whitespace THEN trim_left(Tail(c)) ELSE c

\* chop with an off-by-one fault: the content left starts one character too far.
chop_skips_one(c, n) ==
    [token |-> SubSeq(c, 1, n), rest |-> SubSeq(c, n + 2, Len(c))]

\* Lexer::chop: the first n characters, and the content after them.
chop(c, n) ==
    [token |-> SubSeq(c, 1, n), rest |-> SubSeq(c, n + 1, Len(c))]

RECURSIVE while_count(_, _, _)
\* The loop of Lexer::chop_while: the n it stops at, starting from n.
while_count(c, P, n) ==
    IF n < Len(c) /\ c[n + 1] \in P THEN while_count(c, P, n + 1) ELSE n

\* Lexer::chop_while, the predicate given as the set of characters it holds of.
chop_while(c, P) == chop(c, while_count(c, P, 0))

\* next_token with a fault: the numeric branch chops an alphanumeric run.
next_token_numeric_absorbs(c0) ==
    LET c == trim_left(c0) IN
    IF c = <<>> THEN [some |-> FALSE, term |-> <<>>, span |-> <<>>, rest |-> c]
    ELSE IF c[1] \in Numeric THEN
        LET r == chop_while(c, Alphanumeric) IN
        [some |-> TRUE, term |-> r.token, span |-> r.token, rest |-> r.rest]
    ELSE IF c[1] \in Alphabetic THEN
        LET r == chop_while(c, Alphanumeric) IN
        [some |-> TRUE, term |-> MapUpper(r.token), span |-> r.token, rest |-> r.rest]
    ELSE
        LET r == chop(c, 1) IN
        [some |-> TRUE, term |-> r.token, span |-> r.token, rest |-> r.rest]

\* Lexer::next_token on content c0: whether a term is returned (Some), the
\* term, the slice it was made from, and the content left in the Lexer.
next_token(c0) ==
    LET c == trim_left(c0) IN
    IF c = <<>> THEN [some |-> FALSE, term |-> <<>>, span |-> <<>>, rest |-> c]
    ELSE IF c[1] \in Numeric THEN
        LET r == chop_while(c, Numeric) IN
        [some |-> TRUE, term |-> r.token, span |-> r.token, rest |-> r.rest]
    ELSE IF c[1] \in Alphabetic THEN
        LET r == chop_while(c, Alphanumeric) IN
        [some |-> TRUE, term |-> MapUpper(r.token), span |-> r.token, rest |-> r.rest]
    ELSE
        LET r == chop(c, 1) IN
        [some |-> TRUE, term |-> r.token, span |-> r.token, rest |-> r.rest]

RECURSIVE next_n(_, _)
\* n calls of Iterator::next in a row on a Lexer over c: the terms they
\* yield and the content left.  The calls are made half by half, which keeps
\* the evaluation shallow on a long content; a call after None yields None.
next_n(c, n) ==
    IF n = 0 THEN [terms |-> <<>>, rest |-> c]
    ELSE IF n = 1 THEN
        [terms |-> IF next_token(c).some THEN <<next_token(c).term>> ELSE <<>>,
         rest |-> next_token(c).rest]
    ELSE LET first == next_n(c, n \div 2)
             second == next_n(first.rest, n - (n \div 2))
         IN  [terms |-> first.terms \o second.terms, rest |-> second.rest]

\* Lexer::new(content).collect::<Vec<_>>(), and the terms a for loop over
\* the Lexer sees: next is called until None, and each call that yields a
\* term consumes a character or more, so Len(c) + 1 calls reach None.
collect(c) == next_n(c, Len(c) + 1).terms

\* SqliteModel::open on a new database: the three tables, empty.
EmptyTables == [Documents |-> {}, TermFreq |-> {}, DocFreq |-> <<>>]

\* No call has been made yet.
NoCall == [op |-> "none", path |-> 0, content |-> <<>>, status |-> "Ok", result |-> <<>>]

\* No response has been made yet.
NoResponse == [code |-> 0, written |-> FALSE, searched |-> FALSE, body |-> <<>>]

\* The server has not been started.
NoServer ==
    /\ srv = "off"
    /\ backend = "memory"
    /\ handled = 0
    /\ responded = 0
    /\ response = NoResponse

\* No traversal has been started.
NoWalk ==
    /\ fs = <<>>
    /\ stack = <<>>
    /\ tf_index = <<>>
    /\ walk = "Ok"

\* The longest input the Lexer specification draws.
MaxLen == 4

\* The characters the Lexer specification draws its inputs from: one or two
\* of each class the three predicates tell apart.
LexChars == {" ", "1", "a", "B", ".", "U+2167"}

RECURSIVE SeqsUpTo(_, _)
\* The sequences over S of length at most n.
SeqsUpTo(S, n) ==
    IF n = 0 THEN {<<>>}
    ELSE LET shorter == SeqsUpTo(S, n - 1) IN
         shorter \cup {Append(s, x) : s \in {t \in shorter : Len(t) = n - 1}, x \in S}

\* Lexer::new(content) over any input.
InitLexer ==
    /\ input \in SeqsUpTo(LexChars, MaxLen)
    /\ content = input
    /\ terms = <<>>
    /\ spans = <<>>
    /\ done = FALSE
    /\ docs = <<>>
    /\ df = <<>>
    /\ indexed = <<>>
    /\ call = NoCall
    /\ ncalls = 0
    /\ Documents = {}
    /\ TermFreq = {}
    /\ DocFreq = <<>>
    /\ inTx = FALSE
    /\ durable = EmptyTables
    /\ sqlcall = NoCall
    /\ NoServer
    /\ NoWalk

\* Iterator::next returning Some(term).
NextSome ==
    /\ ~done
    /\ next_token(content).some
    /\ content' = next_token(content).rest
    /\ terms' = Append(terms, next_token(content).term)
    /\ spans' = Append(spans, next_token(content).span)
    /\ UNCHANGED <<input, done>>
    /\ UNCHANGED memvars
    /\ UNCHANGED sqlvars
    /\ UNCHANGED <<srvvars, idxvars>>

\* Iterator::next returning None: the for loop over the Lexer ends.
NextNone ==
    /\ ~done
    /\ ~next_token(content).some
    /\ content' = next_token(content).rest
    /\ done' = TRUE
    /\ UNCHANGED <<input, terms, spans>>
    /\ UNCHANGED memvars
    /\ UNCHANGED sqlvars
    /\ UNCHANGED <<srvvars, idxvars>>

NextLexer == NextSome \/ NextNone

\* The Lexer driven by a for loop (collect, or the loops of add_document):
\* next is called until it returns None.
SpecLexer == InitLexer /\ [][NextLexer]_vars /\ WF_vars(NextLexer)

---------------------------------------------------------------------------
(* Properties of the Lexer.                                                *)

\* A character only is_numeric holds of, and one only is_alphabetic holds of.
IsDigit(c) == c \in Numeric \ Alphabetic

IsLetter(c) == c \in Alphabetic \ Numeric

HasDigit(t) == \E i \in 1..Len(t) : IsDigit(t[i])

HasLetter(t) == \E i \in 1..Len(t) : IsLetter(t[i])

\* C9 as stated: no emitted term contains both a digit and a letter,
\* whichever of the two comes first in the input.
C9_NoTermMixesDigitsAndLetters ==
    \A i \in 1..Len(terms) : ~(HasDigit(terms[i]) /\ HasLetter(terms[i]))

\* C9 as amended: a term that starts with a numeric character holds only
\* numeric characters and is the whole numeric run (the letters after a digit
\* run are never absorbed into it), while a term that starts with a letter is
\* the whole alphanumeric run, digits included.
C9_DigitRunNeverAbsorbsLetters ==
    /\ \A i \in 1..Len(spans) :
          /\ spans[i][1] \in Numeric =>
                \A j \in 1..Len(spans[i]) : spans[i][j] \in Numeric
          /\ spans[i][1] \in Alphabetic \ Numeric =>
                \A j \in 1..Len(spans[i]) : spans[i][j] \in Alphanumeric
    /\ (spans # <<>> /\ content # <<>>) =>
          LET last == spans[Len(spans)] IN
          /\ last[1] \in Numeric => content[1] \notin Numeric
          /\ last[1] \in Alphabetic \ Numeric => content[1] \notin Alphanumeric

\* C9's case: "1a" has been tokenized into "1" and "A".
C9_Witness ==
    /\ input = <<"1", "a">>
    /\ done
    /\ terms = << <<"1">>, <<"A">> >>

RECURSIVE Flatten(_)
\* The concatenation of a sequence of sequences.
Flatten(ss) == IF ss = <<>> THEN <<>> ELSE Head(ss) \o Flatten(Tail(ss))

\* s without its whitespace characters.
StripWhitespace(s) == SelectSeq(s, LAMBDA c : c \notin Whitespace)

\* The part of the input the Lexer has consumed.
Consumed == SubSeq(input, 1, Len(input) - Len(content))

C10_SpansInv ==
    /\ \A i \in 1..Len(terms) : terms[i] # <<>> /\ Len(terms[i]) = Len(spans[i])
    /\ Len(terms) = Len(spans)
    /\ content = SubSeq(input, Len(input) - Len(content) + 1, Len(input))
    /\ Flatten(spans) = StripWhitespace(Consumed)
    /\ done => (content = <<>> /\ Flatten(spans) = StripWhitespace(input))

C10_Advances == (terms' # terms) => Len(content') < Len(content)

\* The terms the iteration yields step by step are those collect returns.
CollectIsIteration == done => terms = collect(input)

\* C10: the Lexer yields non-empty terms, every call that yields a term
\* leaves strictly less content, the iteration reaches None, and the
\* concatenation of the terms' source slices is the input without its
\* whitespace.
C10_TokenizerCoversInput ==
    /\ []C10_SpansInv
    /\ [][C10_Advances]_vars
    /\ <>done

\* C10's case: an input with whitespace in it has been tokenized to the end
\* into several terms.
C10_Witness ==
    /\ done
    /\ Len(terms) >= 2
    /\ \E i \in 1..Len(input) : input[i] \in Whitespace

---------------------------------------------------------------------------
(* Scores.  An f32 score is kept exactly: NaN, or log10(num/den)/c with    *)
(* num, den, c >= 1.  Rounding is left out; NaN and its effect on          *)
(* partial_cmp are kept.                                                   *)

RECURSIVE GCD(_, _)
GCD(a, b) == IF b = 0 THEN a ELSE GCD(b, a % b)

RECURSIVE Pow(_, _)
Pow(b, e) == IF e = 0 THEN 1 ELSE b * Pow(b, e - 1)

\* 0f32.
Zero == [nan |-> FALSE, c |-> 1, num |-> 1, den |-> 1]

NaN == [nan |-> TRUE, c |-> 1, num |-> 1, den |-> 1]

\* log10(n/d)/c in lowest terms.
Score(c, n, d) ==
    IF n = d THEN Zero
    ELSE [nan |-> FALSE, c |-> c, num |-> n \div GCD(n, d), den |-> d \div GCD(n, d)]

IsZero(s) == ~s.nan /\ s.num = s.den

\* -1, 0, 1 as s is negative, zero, positive (s not NaN).
Sign(s) == IF s.num > s.den THEN 1 ELSE IF s.num = s.den THEN 0 ELSE -1

RECURSIVE PowCmp(_, _, _, _, _, _)
\* (an/ad)^x against (bn/bd)^y for an/ad > 1 and bn/bd > 1: -1, 0 or 1.
\* Subtracts the smaller exponent from the larger one, as Euclid does, so no
\* power is ever computed.
PowCmp(an, ad, x, bn, bd, y) ==
    IF x = 0 /\ y = 0 THEN 0
    ELSE IF x = 0 THEN -1
    ELSE IF y = 0 THEN 1
    ELSE IF an * bd = bn * ad THEN (IF x > y THEN 1 ELSE IF x = y THEN 0 ELSE -1)
    ELSE IF an * bd > bn * ad THEN
        IF x >= y THEN 1
        ELSE LET g == GCD(an * bd, ad * bn) IN
             PowCmp((an * bd) \div g, (ad * bn) \div g, x, bn, bd, y - x)
    ELSE
        IF x <= y THEN -1
        ELSE LET g == GCD(bn * ad, bd * an) IN
             PowCmp(an, ad, x - y, (bn * ad) \div g, (bd * an) \div g, y)

\* f32::partial_cmp of two scores that are not NaN: -1 (Less), 0 (Equal),
\* 1 (Greater).
Cmp(s, t) ==
    IF Sign(s) # Sign(t) THEN (IF Sign(s) < Sign(t) THEN -1 ELSE 1)
    ELSE IF Sign(s) = 0 THEN 0
    ELSE IF Sign(s) = 1 THEN PowCmp(s.num, s.den, t.c, t.num, t.den, s.c)
    ELSE PowCmp(t.den, t.num, s.c, s.den, s.num, t.c)

\* f32 addition (rank += ...).
AddScore(s, t) ==
    IF s.nan \/ t.nan THEN NaN
    ELSE IF IsZero(s) THEN t
    ELSE IF IsZero(t) THEN s
    ELSE IF s.c = t.c THEN Score(s.c, s.num * t.num, s.den * t.den)
    ELSE Score(s.c * t.c, Pow(s.num, t.c) * Pow(t.num, s.c), Pow(s.den, t.c) * Pow(t.den, s.c))

---------------------------------------------------------------------------
(* The inputs the specifications draw.                                     *)

\* The number of paths add_document is called with.
NumPaths == 2

\* The number of add_document calls a behaviour makes.
MaxAdds == 3

Paths == 1..NumPaths

\* n terms X, each after a space.
Filler(n) == [i \in 1..(2 * n) |-> IF i % 2 = 1 THEN " " ELSE "x"]

\* A content without terms.
DocBlank == <<" ", "\n">>

\* "the a": THE once out of 2 terms.
DocA == <<"t", "h", "e", " ", "a">>

\* "the x x ... x": THE once out of 100 terms.
DocB == <<"t", "h", "e">> \o Filler(99)

\* "a a b".
DocC == <<"a", " ", "a", " ", "b">>

Contents == {DocBlank, DocA, DocB, DocC}

Queries == {<<>>, <<" ", " ">>, <<"T", "H", "E">>, <<"a">>, <<"t", "h", "e", " ", "b">>}

\* The terms of every content and query the specifications draw, computed
\* once.
TokensOfInputs == [c \in Contents \cup Queries |-> collect(c)]

\* Lexer::new(c) iterated to its end.
Tokens(c) == IF c \in DOMAIN TokensOfInputs THEN TokensOfInputs[c] ELSE collect(c)

---------------------------------------------------------------------------
(* InMemoryModel.                                                          *)

\* HashMap::get(k).cloned().unwrap_or(d).
GetOr(m, k, d) == IF k \in DOMAIN m THEN m[k] ELSE d

\* HashMap::insert(k, v).
Insert(m, k, v) == [x \in DOMAIN m \cup {k} |-> IF x = k THEN v ELSE m[x]]

\* The loop filling tf in add_document (1 for a new term, one more for a
\* term already in tf): every term with the number of its occurrences.
TermFreqOf(tokens) ==
    [t \in {tokens[i] : i \in 1..Len(tokens)} |->
        Cardinality({i \in 1..Len(tokens) : tokens[i] = t})]

\* The Doc add_document builds from a content.
DocOf(c) == [tf |-> TermFreqOf(Tokens(c)), count |-> Len(Tokens(c))]

\* The loop over tf.keys() in add_document: df with every term of tf counted
\* once more.
DfAfterAdd(d, tf) ==
    [t \in DOMAIN d \cup DOMAIN tf |->
        IF t \in DOMAIN tf THEN GetOr(d, t, 0) + 1 ELSE d[t]]

\* compute_tf: m / n in f32; 0/0 is NaN.
compute_tf(t, doc) ==
    [nan |-> doc.count = 0, m |-> GetOr(doc.tf, t, 0), n |-> doc.count]

\* compute_idf with a fault: one document more is counted.
compute_idf_plus_one(t, n, d) == [num |-> n + 1, den |-> GetOr(d, t, 1)]

\* compute_idf: log10(n / m), m the term's df, 1 for a term not in df.
compute_idf(t, n, d) == [num |-> n, den |-> GetOr(d, t, 1)]

\* compute_tf(..) * compute_idf(..) in f32.
MulTfIdf(tf, idf) ==
    IF tf.nan THEN NaN
    ELSE Score(tf.n, Pow(idf.num, tf.m), Pow(idf.den, tf.m))

RECURSIVE Rank(_, _, _, _)
\* The inner loop of search_query: rank = 0f32, then rank += tf * idf for
\* each token of the query.
Rank(tokens, doc, n, d) ==
    IF tokens = <<>> THEN Zero
    ELSE AddScore(Rank(SubSeq(tokens, 1, Len(tokens) - 1), doc, n, d),
                  MulTfIdf(compute_tf(tokens[Len(tokens)], doc),
                           compute_idf(tokens[Len(tokens)], n, d)))

\* A stable ascending sort puts e after the elements that are not greater.
SortedInsert(sorted, e) ==
    LET k == Cardinality({i \in 1..Len(sorted) : Cmp(sorted[i].rank, e.rank) <= 0}) IN
    SubSeq(sorted, 1, k) \o <<e>> \o SubSeq(sorted, k + 1, Len(sorted))

RECURSIVE SortByRank(_)
\* result.sort_by(|(_, rank1), (_, rank2)| rank1.partial_cmp(rank2).unwrap())
\* on a result without NaN: the stable ascending sort.
SortByRank(r) ==
    IF r = <<>> THEN <<>>
    ELSE SortedInsert(SortByRank(SubSeq(r, 1, Len(r) - 1)), r[Len(r)])

\* Vec::reverse.
Reverse(r) == [i \in 1..Len(r) |-> r[Len(r) + 1 - i]]

\* The orders a HashMap may iterate its keys in.
Orders(S) ==
    {o \in [1..Cardinality(S) -> S] : \A i, j \in 1..Cardinality(S) : i # j => o[i] # o[j]}

\* search_query with a fault: a query without terms is refused.
search_query_rejects_empty(dcs, d, query, order) ==
    LET tokens == Tokens(query)
        result == [i \in 1..Len(order) |->
                     [path |-> order[i],
                      rank |-> Rank(tokens, dcs[order[i]], Cardinality(DOMAIN dcs), d)]]
    IN  IF tokens = <<>> THEN [status |-> "Err", result |-> <<>>]
        ELSE IF Len(result) >= 2 /\ \E i \in 1..Len(result) : result[i].rank.nan
        THEN [status |-> "panic", result |-> <<>>]
        ELSE [status |-> "Ok", result |-> Reverse(SortByRank(result))]

\* InMemoryModel::search_query, the documents iterated in the given order.
\* Sorting two or more results compares every one of them with another, and
\* partial_cmp(..).unwrap() panics on a NaN.
search_query(dcs, d, query, order) ==
    LET tokens == Tokens(query)
        result == [i \in 1..Len(order) |->
                     [path |-> order[i],
                      rank |-> Rank(tokens, dcs[order[i]], Cardinality(DOMAIN dcs), d)]]
    IN  IF Len(result) >= 2 /\ \E i \in 1..Len(result) : result[i].rank.nan
        THEN [status |-> "panic", result |-> <<>>]
        ELSE [status |-> "Ok", result |-> Reverse(SortByRank(result))]

Init ==
    /\ input = <<>>
    /\ content = <<>>
    /\ terms = <<>>
    /\ spans = <<>>
    /\ done = FALSE
    /\ docs = <<>>
    /\ df = <<>>
    /\ indexed = <<>>
    /\ call = NoCall
    /\ ncalls = 0
    /\ Documents = {}
    /\ TermFreq = {}
    /\ DocFreq = <<>>
    /\ inTx = FALSE
    /\ durable = EmptyTables
    /\ sqlcall = NoCall
    /\ NoServer
    /\ NoWalk

\* InMemoryModel::add_document(file_path, content): always Ok(()).
AddDocument(p, c) ==
    /\ call.status # "panic"
    /\ ncalls < MaxAdds
    /\ df' = DfAfterAdd(df, DocOf(c).tf)
    /\ docs' = Insert(docs, p, DocOf(c))
    /\ indexed' = Insert(indexed, p, c)
    /\ call' = [op |-> "add_document", path |-> p, content |-> c,
                status |-> "Ok", result |-> <<>>]
    /\ ncalls' = ncalls + 1
    /\ UNCHANGED lexvars
    /\ UNCHANGED <<srvvars, idxvars>>
    /\ UNCHANGED sqlvars

\* InMemoryModel::search_query(query); a panic ends the program.
SearchQuery(q) ==
    /\ call.status # "panic"
    /\ \E order \in Orders(DOMAIN docs) :
         LET r == search_query(docs, df, q, order) IN
         call' = [op |-> "search_query", path |-> 0, content |-> q,
                  status |-> r.status, result |-> r.result]
    /\ UNCHANGED <<docs, df, indexed, ncalls>>
    /\ UNCHANGED lexvars
    /\ UNCHANGED <<srvvars, idxvars>>
    /\ UNCHANGED sqlvars

Next ==
    \/ \E p \in Paths, c \in Contents : AddDocument(p, c)
    \/ \E q \in Queries : SearchQuery(q)

Spec == Init /\ [][Next]_vars

---------------------------------------------------------------------------
(* Properties of the in-memory model.                                      *)

\* The terms df or a stored document knows.
KnownTerms == DOMAIN df \cup UNION {DOMAIN docs[p].tf : p \in DOMAIN docs}

\* The number of stored documents whose tf contains t.
DocsWith(t) == Cardinality({p \in DOMAIN docs : t \in DOMAIN docs[p].tf})

\* C1: after every add_document call, df[t] is the number of stored
\* documents whose term-frequency map contains t, for every term t.
C1_DfCountsStoredDocuments ==
    \A t \in KnownTerms : GetOr(df, t, 0) = DocsWith(t)

\* C2: an add_document call that gives a path the content it was last
\* indexed with leaves docs and df as they were.
C2_ReindexingUnchangedIsIdempotent ==
    [][(/\ ncalls' = ncalls + 1
        /\ call'.path \in DOMAIN indexed
        /\ indexed[call'.path] = call'.content)
       => (docs' = docs /\ df' = df)]_vars

\* The last call was search_query.
Searched == call.op = "search_query"

\* The paths of a result, and the rank a result gives a path.
ResultPaths(r) == {r[i].path : i \in 1..Len(r)}

RankOf(r, p) == r[CHOOSE i \in 1..Len(r) : r[i].path = p].rank

\* A result holds one entry for each stored document and no other.
OnePerDocument(r) ==
    /\ Len(r) = Cardinality(DOMAIN docs)
    /\ ResultPaths(r) = DOMAIN docs

\* C3: search_query returns one (path, score) entry for each stored
\* document and no others, ordered by non-increasing score.
C3_SearchReturnsEveryDocumentSorted ==
    Searched =>
        /\ call.status = "Ok"
        /\ OnePerDocument(call.result)
        /\ \A i, j \in 1..Len(call.result) :
             i < j =>
                /\ ~call.result[i].rank.nan
                /\ ~call.result[j].rank.nan
                /\ Cmp(call.result[i].rank, call.result[j].rank) >= 0

THE == <<"T", "H", "E">>

\* The corpus is exactly document A at pa, THE once out of 2 terms, and
\* document B at pb, THE once out of 100 terms.
CorpusAB(pa, pb) ==
    /\ pa # pb
    /\ DOMAIN docs = {pa, pb}
    /\ docs[pa].count = 2 /\ GetOr(docs[pa].tf, THE, 0) = 1
    /\ docs[pb].count = 100 /\ GetOr(docs[pb].tf, THE, 0) = 1

\* C4 as stated: in the corpus of A and B, the query THE ranks A strictly
\* above B.
C4_AOutranksB ==
    \A pa, pb \in Paths :
        (Searched /\ call.content = THE /\ CorpusAB(pa, pb)) =>
            /\ call.status = "Ok"
            /\ call.result[1].path = pa
            /\ Cmp(RankOf(call.result, pa), RankOf(call.result, pb)) = 1

\* C4 as amended: in the corpus of A and B, the query THE never gives A a
\* greater score than B, and gives both the score 0 when each was added
\* once: THE is in both documents, so its idf is log10(2/2) = 0.
C4_ADoesNotOutrankB ==
    \A pa, pb \in Paths :
        (Searched /\ call.content = THE /\ CorpusAB(pa, pb)) =>
            /\ call.status = "Ok"
            /\ OnePerDocument(call.result)
            /\ Cmp(RankOf(call.result, pa), RankOf(call.result, pb)) <= 0
            /\ ncalls = 2 =>
                 /\ IsZero(RankOf(call.result, pa))
                 /\ IsZero(RankOf(call.result, pb))

\* C4's case: A and B were added once each and THE was searched.
C4_Witness ==
    /\ Searched /\ call.content = THE /\ call.status = "Ok"
    /\ ncalls = 2
    /\ \E pa, pb \in Paths : CorpusAB(pa, pb)

\* C5: a search over a corpus with a document of term_count 0 does not fail
\* and gives that document the score 0.
C5_EmptyDocumentScoresZero ==
    (Searched /\ \E p \in DOMAIN docs : docs[p].count = 0) =>
        /\ call.status = "Ok"
        /\ \A i \in 1..Len(call.result) :
             docs[call.result[i].path].count = 0 => IsZero(call.result[i].rank)

\* C8: a query without terms is answered Ok, with every stored document in
\* the result and each with score 0.
C8_EmptyQueryScoresZero ==
    (Searched /\ collect(call.content) = <<>>) =>
        /\ call.status = "Ok"
        /\ OnePerDocument(call.result)
        /\ \A i \in 1..Len(call.result) : IsZero(call.result[i].rank)

\* C8's case: a whitespace-only query was searched over two or more
\* documents, one of them without terms.
C8_Witness ==
    /\ Searched
    /\ call.content = <<" ", " ">>
    /\ call.status = "Ok"
    /\ Cardinality(DOMAIN docs) >= 2
    /\ \E p \in DOMAIN docs : docs[p].count = 0
    /\ \E p \in DOMAIN docs : docs[p].count > 0

\* C13: in every reachable state df[t] is at least 1 and at most the number
\* of stored documents, for every term t of df, so that N/df[t] is at least
\* 1, and no document's score in a search result is negative.
C13_DfBoundedScoresNonNegative ==
    /\ \A t \in DOMAIN df : df[t] >= 1 /\ df[t] <= Cardinality(DOMAIN docs)
    /\ (Searched /\ call.status = "Ok") =>
          \A i \in 1..Len(call.result) :
              call.result[i].rank.nan \/ Sign(call.result[i].rank) >= 0

---------------------------------------------------------------------------
(* SqliteModel, beside an InMemoryModel given the same calls.              *)

\* The number of add_document calls a behaviour of SpecSqlite makes.
SqlMaxAdds == 2

SqlContents == {DocBlank, DocA, DocC}

SqlQueries == {<<>>, <<"a">>}

\* sqlite3_last_insert_rowid after an INSERT into Documents: the INTEGER
\* PRIMARY KEY of a new row is one more than the largest one in the table.
NewRowid == IF Documents = {} THEN 1
            ELSE 1 + CHOOSE m \in {r.id : r \in Documents} :
                         \A r \in Documents : r.id <= m

\* INSERT INTO Documents fails on UNIQUE(path) when the path has a row.
PathStored(p) == \E r \in Documents : r.path = p

\* The tables after the first k statements of SqliteModel::add_document that
\* write: the INSERT INTO Documents, then for each term of tf, in the order
\* the HashMap is iterated in, the INSERT INTO TermFreq and the INSERT OR
\* REPLACE INTO DocFreq of the freq selected before, 0 for no row, plus one.
TablesAfter(p, doc, order, k) ==
    [Documents |->
        IF k >= 1
        THEN Documents \cup {[id |-> NewRowid, path |-> p, term_count |-> doc.count]}
        ELSE Documents,
     TermFreq |->
        TermFreq \cup {[term |-> order[i], doc_id |-> NewRowid, freq |-> doc.tf[order[i]]] :
                         i \in {j \in 1..Len(order) : 2 * j <= k}},
     DocFreq |->
        LET upserted == {order[i] : i \in {j \in 1..Len(order) : 2 * j + 1 <= k}} IN
        [t \in DOMAIN DocFreq \cup upserted |->
            IF t \in upserted THEN GetOr(DocFreq, t, 0) + 1 ELSE DocFreq[t]]]

\* The statements of add_document that write, for a tf of n terms.
Writes(n) == 1 + 2 * n

CurrentTables == [Documents |-> Documents, TermFreq |-> TermFreq, DocFreq |-> DocFreq]

\* SqliteModel::add_document(path, content) and InMemoryModel::add_document
\* of the same arguments.  Every prepare, bind_iter and next of the sqlite
\* call may fail, and the ? then returns Err with the k statements before it
\* executed; the INSERT INTO Documents fails when the path has a row.  Outside
\* BEGIN..COMMIT every statement is committed as it runs.  Inside, sqlite may
\* answer a failure by rolling the whole transaction back.
AddDocumentBoth(p, c) ==
    /\ sqlcall.status # "panic"
    /\ ncalls < SqlMaxAdds
    /\ df' = DfAfterAdd(df, DocOf(c).tf)
    /\ docs' = Insert(docs, p, DocOf(c))
    /\ indexed' = Insert(indexed, p, c)
    /\ call' = [op |-> "add_document", path |-> p, content |-> c,
                status |-> "Ok", result |-> <<>>]
    /\ ncalls' = ncalls + 1
    /\ \E order \in Orders(DOMAIN DocOf(c).tf),
          k \in 0..Writes(Cardinality(DOMAIN DocOf(c).tf)) :
         LET after == TablesAfter(p, DocOf(c), order, k)
             ok == k = Writes(Len(order))
         IN  /\ PathStored(p) => k = 0
             /\ sqlcall' = [op |-> "add_document", path |-> p, content |-> c,
                            status |-> IF ok THEN "Ok" ELSE "Err", result |-> <<>>]
             /\ \/ /\ Documents' = after.Documents
                   /\ TermFreq' = after.TermFreq
                   /\ DocFreq' = after.DocFreq
                   /\ durable' = IF inTx THEN durable ELSE after
                   /\ UNCHANGED inTx
                \/ /\ inTx /\ ~ok
                   /\ Documents' = durable.Documents
                   /\ TermFreq' = durable.TermFreq
                   /\ DocFreq' = durable.DocFreq
                   /\ inTx' = FALSE
                   /\ UNCHANGED durable
    /\ UNCHANGED lexvars
    /\ UNCHANGED <<srvvars, idxvars>>

\* SqliteModel::begin: BEGIN fails inside a transaction.
Begin ==
    /\ sqlcall.status # "panic"
    /\ inTx' = TRUE
    /\ sqlcall' = [op |-> "begin", path |-> 0, content |-> <<>>,
                   status |-> IF inTx THEN "Err" ELSE "Ok", result |-> <<>>]
    /\ UNCHANGED <<Documents, TermFreq, DocFreq, durable>>
    /\ UNCHANGED memvars
    /\ UNCHANGED lexvars
    /\ UNCHANGED <<srvvars, idxvars>>

\* SqliteModel::commit: COMMIT fails when no transaction is open.
Commit ==
    /\ sqlcall.status # "panic"
    /\ inTx' = FALSE
    /\ durable' = IF inTx THEN CurrentTables ELSE durable
    /\ sqlcall' = [op |-> "commit", path |-> 0, content |-> <<>>,
                   status |-> IF inTx THEN "Ok" ELSE "Err", result |-> <<>>]
    /\ UNCHANGED <<Documents, TermFreq, DocFreq>>
    /\ UNCHANGED memvars
    /\ UNCHANGED lexvars
    /\ UNCHANGED <<srvvars, idxvars>>

\* SqliteModel::search_query is todo!(): it panics.  The InMemoryModel is
\* asked the same query.
SearchQueryBoth(q) ==
    /\ sqlcall.status # "panic"
    /\ \E order \in Orders(DOMAIN docs) :
         LET r == search_query(docs, df, q, order) IN
         call' = [op |-> "search_query", path |-> 0, content |-> q,
                  status |-> r.status, result |-> r.result]
    /\ sqlcall' = [op |-> "search_query", path |-> 0, content |-> q,
                   status |-> "panic", result |-> <<>>]
    /\ UNCHANGED <<docs, df, indexed, ncalls>>
    /\ UNCHANGED <<Documents, TermFreq, DocFreq, inTx, durable>>
    /\ UNCHANGED lexvars
    /\ UNCHANGED <<srvvars, idxvars>>

NextSqlite ==
    \/ \E p \in Paths, c \in SqlContents : AddDocumentBoth(p, c)
    \/ Begin
    \/ Commit
    \/ \E q \in SqlQueries : SearchQueryBoth(q)

SpecSqlite == Init /\ [][NextSqlite]_vars

---------------------------------------------------------------------------
(* Properties of the SqliteModel.                                          *)

\* C6: after the same add_document calls, search_query of the SqliteModel
\* returns what search_query of the InMemoryModel returns for the same query:
\* the same documents with the same scores in the same order.
C6_BackendsAnswerAlike ==
    (Searched /\ sqlcall.op = "search_query") =>
        /\ sqlcall.status = call.status
        /\ sqlcall.result = call.result

\* C7: an add_document call that returns an error leaves the stored corpus
\* exactly as it was before the call.
C7_FailedAddChangesNothing ==
    [][(/\ ncalls' = ncalls + 1
        /\ sqlcall'.op = "add_document"
        /\ sqlcall'.status = "Err")
       => (/\ Documents' = Documents
           /\ TermFreq' = TermFreq
           /\ DocFreq' = DocFreq)]_vars

---------------------------------------------------------------------------
(* The HTTP server (server.rs).                                            *)

\* The requests the serving loop takes in one run.
MaxRequests == 2

\* The results serve_api_search puts in its answer: result.iter().take(20).
TopResults == 20

\* The Lexer is not in use.
NoLexer ==
    /\ input = <<>>
    /\ content = <<>>
    /\ terms = <<>>
    /\ spans = <<>>
    /\ done = FALSE

\* A new InMemoryModel.
NoDocuments ==
    /\ docs = <<>>
    /\ df = <<>>
    /\ indexed = <<>>
    /\ call = NoCall
    /\ ncalls = 0

\* A SqliteModel with empty tables.
NoTables ==
    /\ Documents = {}
    /\ TermFreq = {}
    /\ DocFreq = <<>>
    /\ inTx = FALSE
    /\ durable = EmptyTables
    /\ sqlcall = NoCall

\* The server is built over one of the two Models and is not started yet.
InitServer ==
    /\ NoLexer
    /\ NoDocuments
    /\ NoTables
    /\ NoWalk
    /\ srv = "off"
    /\ backend \in {"memory", "sqlite"}
    /\ handled = 0
    /\ responded = 0
    /\ response = NoResponse

\* request.respond(..): the one place a response is made. written is FALSE
\* when the write fails with an io::Error, which start logs and drops.
respond(code, written, searched, body) ==
    /\ responded' = responded + 1
    /\ response' = [code |-> code, written |-> written,
                    searched |-> searched, body |-> body]

serve_404(written, searched) == respond(404, written, searched, <<>>)

serve_500(written, searched) == respond(500, written, searched, <<>>)

serve_400(written, searched) == respond(400, written, searched, <<>>)

\* The first n elements of a sequence.
take(r, n) == SubSeq(r, 1, IF Len(r) < n THEN Len(r) ELSE n)

\* model.search_query(&body) as the server's backend runs it: SqliteModel's
\* is todo!(), which panics; InMemoryModel's is search_query above.
backend_search_query(query, order) ==
    IF backend = "sqlite"
    THEN [status |-> "panic", result |-> <<>>]
    ELSE search_query(docs, df, query, order)

\* One iteration of the loop in start taking a POST /api/search request.
\* readable: read_to_end succeeded; utf8: the body is valid UTF-8 and is
\* the characters q; json: serde_json::to_string succeeded; written: the
\* response was written. A panic in search_query unwinds through
\* serve_api_search, serve_request and start: no response, no next request.
ServeApiSearch(readable, utf8, q, json, written) ==
    /\ srv = "serving"
    /\ handled < MaxRequests
    /\ handled' = handled + 1
    /\ IF ~readable
       THEN serve_500(written, FALSE) /\ srv' = srv
       ELSE IF ~utf8
       THEN serve_400(written, FALSE) /\ srv' = srv
       ELSE \E order \in Orders(DOMAIN docs) :
              LET r == backend_search_query(q, order) IN
              IF r.status = "panic"
              THEN srv' = "panicked" /\ UNCHANGED <<responded, response>>
              ELSE IF ~json
              THEN serve_500(written, TRUE) /\ srv' = srv
              ELSE /\ respond(200, written, TRUE, take(r.result, TopResults))
                   /\ srv' = srv
    /\ UNCHANGED backend
    /\ UNCHANGED <<lexvars, memvars, sqlvars, idxvars>>

\* serve_static_file: File::open gives the file, NotFound, or another error.
serve_static_file(opened, written) ==
    IF opened = "NotFound" THEN serve_404(written, FALSE)
    ELSE IF opened = "Err" THEN serve_500(written, FALSE)
    ELSE respond(200, written, FALSE, <<>>)

\* One iteration of the loop in start taking GET /, /index.html or /index.js.
ServeStaticFile(opened, written) ==
    /\ srv = "serving"
    /\ handled < MaxRequests
    /\ handled' = handled + 1
    /\ serve_static_file(opened, written)
    /\ UNCHANGED <<srv, backend>>
    /\ UNCHANGED <<lexvars, memvars, sqlvars, idxvars>>

\* One iteration of the loop in start taking any other request.
ServeNotFound(written) ==
    /\ srv = "serving"
    /\ handled < MaxRequests
    /\ handled' = handled + 1
    /\ serve_404(written, FALSE)
    /\ UNCHANGED <<srv, backend>>
    /\ UNCHANGED <<lexvars, memvars, sqlvars, idxvars>>

\* start up to its loop: Server::http binds the address or start returns Err.
Start(bound) ==
    /\ srv = "off"
    /\ srv' = IF bound THEN "serving" ELSE "bind_failed"
    /\ UNCHANGED <<backend, handled, responded, response>>
    /\ UNCHANGED <<lexvars, memvars, sqlvars, idxvars>>

\* The InMemoryModel is filled before the server is started.
IndexBeforeStart(p, c) ==
    /\ srv = "off"
    /\ backend = "memory"
    /\ AddDocument(p, c)

NextServer ==
    \/ \E p \in Paths, c \in Contents : IndexBeforeStart(p, c)
    \/ \E bound \in BOOLEAN : Start(bound)
    \/ \E readable, utf8, json, written \in BOOLEAN, q \in Queries :
          ServeApiSearch(readable, utf8, q, json, written)
    \/ \E opened \in {"Ok", "NotFound", "Err"}, written \in BOOLEAN :
          ServeStaticFile(opened, written)
    \/ \E written \in BOOLEAN : ServeNotFound(written)

SpecServer == InitServer /\ [][NextServer]_vars

\* C11: whatever goes wrong while a request is handled, the serving loop
\* is still running afterwards and has made exactly one response for every
\* request it took, and a 400 response is made without search_query having
\* been called.
C11_EveryRequestGetsOneResponse ==
    srv \notin {"off", "bind_failed"} =>
        /\ srv = "serving"
        /\ responded = handled
        /\ response.code = 400 => ~response.searched

---------------------------------------------------------------------------
(* The directory traversal of the index subcommand (main.rs).              *)

\* The most entries of the directory the traversal is started on.
MaxEntries == 3

\* The most entries of a directory inside it.
MaxSubEntries == 1

\* What parse_entire_xml_file gives for the files it can read.
FileContents == {DocA, DocC}

\* A regular file parse_entire_xml_file reads as the content c.
FileEntry(c) == [kind |-> "file", content |-> c, opens |-> TRUE, entries |-> <<>>]

\* A regular file parse_entire_xml_file fails on: it cannot be opened, or
\* it is not well-formed XML.
BrokenEntry == [kind |-> "broken", content |-> <<>>, opens |-> FALSE, entries |-> <<>>]

\* The point where the directory's iterator yields an Err.
UnreadEntry == [kind |-> "unread", content |-> <<>>, opens |-> FALSE, entries |-> <<>>]

\* An entry whose file_type() is an Err.
UntypedEntry == [kind |-> "untyped", content |-> <<>>, opens |-> FALSE, entries |-> <<>>]

\* A directory: fs::read_dir opens it or fails, and iterating gives entries.
DirEntry(opens, entries) ==
    [kind |-> "dir", content |-> <<>>, opens |-> opens, entries |-> entries]

Leaves == {FileEntry(c) : c \in FileContents} \cup {BrokenEntry, UnreadEntry, UntypedEntry}

SubDirs ==
    {DirEntry(FALSE, <<>>)} \cup {DirEntry(TRUE, es) : es \in SeqsUpTo(Leaves, MaxSubEntries)}

\* The directories the traversal is started on.
Roots ==
    {DirEntry(FALSE, <<>>)}
        \cup {DirEntry(TRUE, es) : es \in SeqsUpTo(Leaves \cup SubDirs, MaxEntries)}

\* The directory at a path of fs; a path is the positions of the entries
\* leading to it.
RECURSIVE DirAt(_, _)
DirAt(dir, path) ==
    IF path = <<>> THEN dir ELSE DirAt(dir.entries[Head(path)], Tail(path))

\* entry(): TermFreqIndex::new(), then tf_index_of_folder on the directory
\* given on the command line. A frame at position 0 has not called
\* fs::read_dir yet.
InitIndex ==
    /\ NoLexer
    /\ NoDocuments
    /\ NoTables
    /\ NoServer
    /\ fs \in Roots
    /\ stack = <<[dir |-> <<>>, pos |-> 0]>>
    /\ tf_index = <<>>
    /\ walk = "running"

\* The call of tf_index_of_folder in progress, its directory, and the entry
\* its loop is at.
Frame == stack[Len(stack)]

Dir == DirAt(fs, Frame.dir)

AtEntry == Frame.pos >= 1 /\ Frame.pos <= Len(Dir.entries)

Entry == Dir.entries[Frame.pos]

file_path == Append(Frame.dir, Frame.pos)

\* The stack with the loop of the innermost call moved to its next entry.
NextFile == [stack EXCEPT ![Len(stack)].pos = Frame.pos + 1]

\* An Err returned with ? through every call in progress.
ReturnErr(step) ==
    /\ walk' = step
    /\ stack' = <<>>
    /\ UNCHANGED <<fs, tf_index>>

\* fs::read_dir(dir_path).map_err(..)?
ReadDir ==
    /\ walk = "running"
    /\ Frame.pos = 0
    /\ IF Dir.opens
       THEN stack' = NextFile /\ UNCHANGED <<fs, tf_index, walk>>
       ELSE ReturnErr("read_dir")
    /\ UNCHANGED <<lexvars, memvars, sqlvars, srvvars>>

\* file.map_err(..)? on an Err of the directory's iterator.
NextEntryFails ==
    /\ walk = "running"
    /\ AtEntry
    /\ Entry.kind = "unread"
    /\ ReturnErr("next_entry")
    /\ UNCHANGED <<lexvars, memvars, sqlvars, srvvars>>

\* file.file_type().map_err(..)? on an Err.
FileTypeFails ==
    /\ walk = "running"
    /\ AtEntry
    /\ Entry.kind = "untyped"
    /\ ReturnErr("file_type")
    /\ UNCHANGED <<lexvars, memvars, sqlvars, srvvars>>

\* file_type.is_dir(): tf_index_of_folder(&file_path, tf_index)? is called,
\* and this loop continues with its next entry once that call returns.
Descend ==
    /\ walk = "running"
    /\ AtEntry
    /\ Entry.kind = "dir"
    /\ stack' = Append(NextFile, [dir |-> file_path, pos |-> 0])
    /\ UNCHANGED <<fs, tf_index, walk>>
    /\ UNCHANGED <<lexvars, memvars, sqlvars, srvvars>>

\* parse_entire_xml_file is Err(()): continue 'next_file.
SkipFile ==
    /\ walk = "running"
    /\ AtEntry
    /\ Entry.kind = "broken"
    /\ stack' = NextFile
    /\ UNCHANGED <<fs, tf_index, walk>>
    /\ UNCHANGED <<lexvars, memvars, sqlvars, srvvars>>

\* parse_entire_xml_file is Ok(content): the terms of the content are
\* counted into tf and tf_index.insert(file_path, tf).
IndexFile ==
    /\ walk = "running"
    /\ AtEntry
    /\ Entry.kind = "file"
    /\ tf_index' = Insert(tf_index, file_path, TermFreqOf(Tokens(Entry.content)))
    /\ stack' = NextFile
    /\ UNCHANGED <<fs, walk>>
    /\ UNCHANGED <<lexvars, memvars, sqlvars, srvvars>>

\* The loop is over: Ok(()) to the caller, which is the loop of the
\* enclosing call or entry().
ReturnOk ==
    /\ walk = "running"
    /\ Frame.pos > Len(Dir.entries)
    /\ stack' = SubSeq(stack, 1, Len(stack) - 1)
    /\ walk' = IF Len(stack) = 1 THEN "Ok" ELSE "running"
    /\ UNCHANGED <<fs, tf_index>>
    /\ UNCHANGED <<lexvars, memvars, sqlvars, srvvars>>

NextIndex ==
    \/ ReadDir
    \/ NextEntryFails
    \/ FileTypeFails
    \/ Descend
    \/ SkipFile
    \/ IndexFile
    \/ ReturnOk

SpecIndex == InitIndex /\ [][NextIndex]_vars

\* The paths under a directory with the entries found there, directories
\* that do not open left out.
RECURSIVE EntriesUnder(_, _)
EntriesUnder(dir, path) ==
    IF ~dir.opens THEN {}
    ELSE UNION {
           {[path |-> Append(path, i), entry |-> dir.entries[i]]}
              \cup (IF dir.entries[i].kind = "dir"
                    THEN EntriesUnder(dir.entries[i], Append(path, i))
                    ELSE {})
           : i \in 1..Len(dir.entries)}

\* The files of fs whose extraction fails, and those whose extraction
\* succeeds.
BrokenFiles == {e \in EntriesUnder(fs, <<>>) : e.entry.kind = "broken"}

GoodFiles == {e \in EntriesUnder(fs, <<>>) : e.entry.kind = "file"}

\* C12 (first part): a file whose content extraction fails never gets an
\* entry in the index, and a traversal that returns Ok has indexed every
\* file whose extraction succeeds under its own terms, the same index as
\* with the failing files absent.
C12_BrokenFilesAreSkipped ==
    /\ \A e \in BrokenFiles : e.path \notin DOMAIN tf_index
    /\ walk = "Ok" =>
          /\ DOMAIN tf_index = {e.path : e \in GoodFiles}
          /\ \A e \in GoodFiles :
                tf_index[e.path] = TermFreqOf(Tokens(e.entry.content))

\* C12: a file whose content extraction fails is skipped without an entry
\* and without ending the traversal, every file whose extraction succeeds is
\* indexed as if the failing files were absent, and the traversal returns
\* an error only when a directory could not be opened or listed.
C12_OnlyDirectoryFailuresEndTraversal ==
    /\ C12_BrokenFilesAreSkipped
    /\ walk \in {"running", "Ok", "read_dir", "next_entry"}

====
